---- MODULE Spec2Model ----
(***************************************************************************)
(* A model of check_state.py: the folder-list resolver (expand_folders),   *)
(* the directory prober (check_paths), the reconciler (show_results), the  *)
(* instance auto-detection (set_set_instance) and the driver (main).       *)
(*                                                                         *)
(* A path is a sequence of one-character strings, so that the string       *)
(* helpers of the script (basename, isabs, rstrip, os.path.join) are       *)
(* computed as the script computes them.  Python's None is the value None. *)
(* A Python dict is an "ordered dict": a sequence of [key, val] records in *)
(* the dict's iteration order.                                             *)
(***************************************************************************)
EXTENDS Integers, Sequences, FiniteSets, TLC

VARIABLES
    pc,        \* position of the run / of the function under study
    xdb,       \* expand_folders: the configuration handed to it
    xinst,     \* expand_folders: the instance asked for
    xres,      \* expand_folders: its outcome
    others,    \* the ObservationStore {'obs': ...} held in memory
    cur,       \* show_results: the cur_instance argument
    shown,     \* outcome of the last show_results call
    disk,      \* what is on disk at each path
    python,    \* major version of the interpreter running the script
    probed,    \* outcome of the last check_paths call
    opt,       \* the argparse namespace
    seen,      \* config['seen'] of the local configuration
    cwd,       \* os.getcwd()
    ssi,       \* outcome of main's set_set_instance call
    fetched,   \* the store as pull_settings returned it
    written,   \* the Observations do_check_one has written in this run
    pushed,    \* the store push_settings has pushed, if it has
    todo,      \* do_check_all: the sets still to be visited
    log        \* what the run has done so far, in order

vars == <<pc, xdb, xinst, xres, others, cur, shown, disk, python, probed, opt, seen,
          cwd, ssi, fetched, written, pushed, todo, log>>

\* None where a path, a list or a record is expected
None == <<"None">>

\* None where a name (a set, an instance) is expected
NoName == "None"

-----------------------------------------------------------------------------
(* Sequences and ordered dicts *)

Range(s) == {s[i] : i \in 1..Len(s)}

RECURSIVE Flatten(_)
Flatten(ss) == IF ss = <<>> THEN <<>> ELSE Head(ss) \o Flatten(Tail(ss))

\* the strictly increasing index sequences of 1..n, i.e. the sub-lists of a list
RECURSIVE SubLists(_)
SubLists(s) ==
    IF s = <<>> THEN {<<>>}
    ELSE LET rest == SubLists(Tail(s))
         IN  rest \cup {<<Head(s)>> \o r : r \in rest}

SeqsUpTo(S, n) == UNION {[1..k -> S] : k \in 0..n}

Keys(od) == [i \in 1..Len(od) |-> od[i].key]

Has(od, k) == \E i \in 1..Len(od) : od[i].key = k

Get(od, k) == od[CHOOSE i \in 1..Len(od) : od[i].key = k].val

\* d[k] = v on a dict that keeps insertion order (Python 3.7 and later): an
\* existing key keeps its place, a new key goes to the end
Put(od, k, v) ==
    IF Has(od, k)
    THEN [i \in 1..Len(od) |-> IF od[i].key = k THEN [key |-> k, val |-> v] ELSE od[i]]
    ELSE Append(od, [key |-> k, val |-> v])

-----------------------------------------------------------------------------
(* String helpers of the script *)

\* str.rstrip(chars)
RECURSIVE rstrip(_, _)
rstrip(s, chars) ==
    IF s # <<>> /\ s[Len(s)] \in chars
    THEN rstrip(SubSeq(s, 1, Len(s) - 1), chars)
    ELSE s

\* str.replace('\\', '/')
unbackslash(s) == [i \in 1..Len(s) |-> IF s[i] = "\\" THEN "/" ELSE s[i]]

\* str.rsplit('/', 1)[-1]: what follows the last '/', the whole string without one
RECURSIVE last_segment(_)
last_segment(s) ==
    IF s = <<>> THEN <<>>
    ELSE IF s[Len(s)] = "/" THEN <<>>
    ELSE Append(last_segment(SubSeq(s, 1, Len(s) - 1)), s[Len(s)])

basename(path) == last_segment(rstrip(unbackslash(path), {"/"}))

isabs(path) ==
    \/ Len(path) > 0 /\ path[1] = "/"
    \/ Len(path) > 1 /\ path[2] = ":"

\* a join that puts no separator between the two components
path_join_flat(a, b) ==
    IF Len(b) > 0 /\ b[1] = "/" THEN b ELSE a \o b

\* os.path.join(a, b) of posixpath, for two components
path_join(a, b) ==
    IF Len(b) > 0 /\ b[1] = "/" THEN b
    ELSE IF a = <<>> \/ a[Len(a)] = "/" THEN a \o b
    ELSE a \o <<"/">> \o b

-----------------------------------------------------------------------------
(* expand_folders.  An entry of a folder list is [isList, items]: a plain   *)
(* string entry has isList = FALSE and the one string as items, a list      *)
(* entry has isList = TRUE and its members as items.  The outcome is        *)
(* [raised, folders]; folders is the returned list, empty when raised.      *)

Str(p) == [isList |-> FALSE, items |-> <<p>>]
Lst(ps) == [isList |-> TRUE, items |-> ps]

\* not_list and basename(entry) == '+'
is_marker(entry) == ~entry.isList /\ basename(entry.items[1]) = <<"+">>

\* expand_subdirs with the check of line 159 lost: a relative member met
\* before any base path is dropped instead of raising
RECURSIVE expand_subdirs_skipping(_, _, _)
expand_subdirs_skipping(subdirs, cur_path, acc) ==
    IF subdirs = <<>> THEN [raised |-> FALSE, folders |-> acc]
    ELSE LET subdir == Head(subdirs)
         IN  IF ~isabs(subdir)
             THEN IF cur_path = None \/ cur_path = <<>>
                  THEN expand_subdirs_skipping(Tail(subdirs), cur_path, acc)
                  ELSE expand_subdirs_skipping(Tail(subdirs), cur_path,
                                      Append(acc, path_join(cur_path, subdir)))
             ELSE expand_subdirs_skipping(Tail(subdirs), cur_path, Append(acc, subdir))

\* the inner loop, lines 157-164: [raised, folders]
RECURSIVE expand_subdirs(_, _, _)
expand_subdirs(subdirs, cur_path, acc) ==
    IF subdirs = <<>> THEN [raised |-> FALSE, folders |-> acc]
    ELSE LET subdir == Head(subdirs)
         IN  IF ~isabs(subdir)
             THEN IF cur_path = None \/ cur_path = <<>>
                  THEN [raised |-> TRUE, folders |-> <<>>]
                  ELSE expand_subdirs(Tail(subdirs), cur_path,
                                      Append(acc, path_join(cur_path, subdir)))
             ELSE expand_subdirs(Tail(subdirs), cur_path, Append(acc, subdir))

\* the outer loop, lines 150-164
RECURSIVE expand_entries(_, _, _)
expand_entries(entries, cur_path, acc) ==
    IF entries = <<>> THEN [raised |-> FALSE, folders |-> acc]
    ELSE LET entry == Head(entries)
         IN  IF is_marker(entry)
             THEN expand_entries(Tail(entries),
                                 rstrip(entry.items[1], {"+", "/", "\\"}), acc)
             ELSE LET r == expand_subdirs(entry.items, cur_path, acc)
                  IN  IF r.raised THEN r
                      ELSE expand_entries(Tail(entries), cur_path, r.folders)

\* db is an ordered dict set -> ordered dict instance -> folder list
expand_folders(db, set_, instance) ==
    IF ~Has(Get(db, set_), instance)
    THEN [raised |-> FALSE, folders |-> <<>>]
    ELSE expand_entries(Get(Get(db, set_), instance), None, <<>>)

-----------------------------------------------------------------------------
(* Values the variables of one study hold while another study runs *)

ExpandIdle == xdb = <<>> /\ xinst = None /\ xres = None
ShowIdle == cur = NoName /\ shown = None
PathsIdle == disk = <<>> /\ python = 3 /\ probed = None
MainIdle ==
    /\ opt = None /\ seen = <<>> /\ cwd = <<>> /\ ssi = None /\ fetched = <<>>
    /\ written = <<>> /\ pushed = <<>> /\ todo = <<>> /\ log = <<>>

ExpandVars == <<xdb, xinst, xres>>
ShowVars == <<cur, shown>>
PathsVars == <<disk, python, probed>>
MainVars == <<opt, seen, cwd, ssi, fetched, written, pushed, todo, log>>

-----------------------------------------------------------------------------
(* SpecExpand: expand_folders on bounded folder lists *)

MaxFolders == 3

\* folder strings: markers (absolute, relative, with an empty base, written
\* with a backslash or a trailing slash), absolute and relative paths
PlainPool ==
    { <<"/", "a", "/", "+">>,        \* '/a/+'   base '/a'
      <<"b", "\\", "+">>,            \* 'b\+'    base 'b'
      <<"/", "+">>,                  \* '/+'     base ''
      <<"/", "a", "+", "/", "+", "/">>, \* '/a+/+/' base '/a'
      <<"p">>,                       \* relative
      <<"p", "+">>,                  \* relative, ends in '+' but is no marker
      <<"/", "q">>,                  \* absolute
      <<"c", ":", "q">> }            \* absolute by its drive letter

\* list entries; a member that looks like a marker is a path like any other
GroupPool ==
    { <<>>,
      << <<"p">>, <<"/", "q">> >>,
      << <<"/", "q">>, <<"r">> >>,
      << <<"+">> >> }

EntryPool == {Str(p) : p \in PlainPool} \cup {Lst(g) : g \in GroupPool}

OneInstance(folders) ==
    << [key |-> "demo", val |-> << [key |-> "alpha", val |-> folders] >>] >>

InitExpand ==
    /\ pc = "input"
    /\ xdb \in {OneInstance(f) : f \in SeqsUpTo(EntryPool, MaxFolders)}
    /\ xinst \in {"alpha", "ghost"}
    /\ xres = None
    /\ others = None
    /\ ShowIdle /\ PathsIdle /\ MainIdle

Expand ==
    /\ pc = "input"
    /\ xres' = expand_folders(xdb, "demo", xinst)
    /\ pc' = "expanded"
    /\ UNCHANGED <<xdb, xinst, others, ShowVars, PathsVars, MainVars>>

NextExpand == Expand

SpecExpand == InitExpand /\ [][NextExpand]_vars

\* the folder list under study
XFolders == Get(Get(xdb, "demo"), "alpha")

XMarkersBefore(i) == {j \in 1..(i - 1) : is_marker(XFolders[j])}

\* the base path a marker sets, line 154: the marker without its trailing
\* '+', '/' and '\' characters ('/a/+' sets '/a', and so does '/a+/+/')
MarkerBase(m) == rstrip(m, {"+", "/", "\\"})

\* the base path in force at entry i: None before any marker
XBaseAt(i) ==
    IF XMarkersBefore(i) = {} THEN None
    ELSE LET j == CHOOSE j \in XMarkersBefore(i) : \A l \in XMarkersBefore(i) : l <= j
         IN  MarkerBase(XFolders[j].items[1])

XExpected(i) ==
    IF is_marker(XFolders[i]) THEN <<>>
    ELSE [k \in 1..Len(XFolders[i].items) |->
             LET item == XFolders[i].items[k]
             IN  IF isabs(item) THEN item ELSE XBaseAt(i) \o <<"/">> \o item]

XRelativeWithoutBase ==
    \E i \in 1..Len(XFolders) :
        /\ ~is_marker(XFolders[i])
        /\ \E k \in 1..Len(XFolders[i].items) : ~isabs(XFolders[i].items[k])
        /\ XBaseAt(i) \in {None, <<>>}

\* C1: a folder list holding a relative entry (plain, or a member of a list
\* entry) at a place where no marker has set a base path, or where the base
\* path is empty, makes expand_folders raise: nothing is returned, the entry
\* is neither joined to an empty base nor skipped.
C1_RelativeWithoutBaseRaises ==
    (pc = "expanded" /\ xinst = "alpha" /\ XRelativeWithoutBase)
        => (xres.raised /\ xres.folders = <<>>)

\* C1 witness: a list entry with a relative member after an absolute entry,
\* no marker anywhere, and expand_folders has raised.
C1_Witness ==
    /\ pc = "expanded" /\ xinst = "alpha"
    /\ XFolders = << Str(<<"/", "q">>), Lst(<< <<"/", "q">>, <<"r">> >>) >>
    /\ xres.raised

\* C2: when expand_folders succeeds its result is, in input order, nothing
\* for a marker entry and for every other entry its members in place:
\* an absolute one unchanged, a relative one joined to the base path of the
\* most recent marker before it.
C2_OutputInOrder ==
    (pc = "expanded" /\ xinst = "alpha" /\ ~xres.raised)
        => xres.folders = Flatten([i \in 1..Len(XFolders) |-> XExpected(i)])

\* C2 witness: a marker, then a list entry with an absolute and a relative
\* member, then a relative entry; the members come out in place, the
\* relative ones joined to the marker's base path.
C2_Witness ==
    /\ pc = "expanded" /\ xinst = "alpha" /\ ~xres.raised
    /\ XFolders = << Str(<<"/", "a", "+", "/", "+", "/">>),
                     Lst(<< <<"/", "q">>, <<"r">> >>), Str(<<"p">>) >>
    /\ xres.folders = << <<"/", "q">>, <<"/", "a", "/", "r">>, <<"/", "a", "/", "p">> >>

-----------------------------------------------------------------------------
(* show_results.  A Probe is a record: every Probe has 'subdir'; a Probe of *)
(* a version-controlled directory has in addition 'commit', 'mods' and      *)
(* 'remote_differs' (check_paths, lines 81-86); a Probe of a directory with *)
(* at least one file outside .git has the file statistics of                *)
(* get_file_stats, of which 'latest' stands for all ('file_count' and       *)
(* 'bytes' are there exactly when 'latest' is).  'commit_time' only fills a *)
(* column of the table and is left out.  An Observation is                  *)
(* [updated, subdirs].                                                      *)
(*                                                                          *)
(* The outcome is what was printed: blocks, one per instance, each with its *)
(* rows [name, mark_commit]; warning, the set of names in the 'mixed        *)
(* commits' line (the line joins a Python set, its order is not fixed),     *)
(* empty without such a line; remedies, the suggestions; raised, whether a  *)
(* KeyError ended the call.                                                 *)

\* sorted(d, key=lambda x: x == cur_instance): a stable sort on a boolean key
sorted_last(keys, cur_instance) ==
    SelectSeq(keys, LAMBDA k : k # cur_instance)
        \o SelectSeq(keys, LAMBDA k : k = cur_instance)

\* the Probes of the instances in keys, as a set of [instance, probe]
all_probes(obs_set, keys) ==
    UNION {{[instance |-> keys[i], probe |-> Get(obs_set, keys[i]).subdirs[k]] :
               k \in 1..Len(Get(obs_set, keys[i]).subdirs)} : i \in 1..Len(keys)}

\* commit[dir_] after the loop of lines 506-512
commit_hashes(obs_set, keys, dir_) ==
    {ip.probe.commit : ip \in {x \in all_probes(obs_set, keys) :
                                   basename(x.probe.subdir) = dir_}}

\* line 510 raises KeyError for a Probe without 'commit'
commit_key_error(obs_set, keys) ==
    \E ip \in all_probes(obs_set, keys) : "commit" \notin DOMAIN ip.probe

\* line 512 raises KeyError for a Probe without 'latest'
latest_key_error(obs_set, keys) ==
    \E ip \in all_probes(obs_set, keys) : "latest" \notin DOMAIN ip.probe

\* the rows of one instance block, lines 520-532
block_rows(obs_set, keys, instance) ==
    LET subdirs == Get(obs_set, instance).subdirs
    IN  [k \in 1..Len(subdirs) |->
            LET dir_ == basename(subdirs[k].subdir)
            IN  [name |-> dir_,
                 mark_commit |-> Cardinality(commit_hashes(obs_set, keys, dir_)) # 1]]

\* lines 516-524
mixed_commits(obs_set, keys) ==
    {basename(ip.probe.subdir) : ip \in {x \in all_probes(obs_set, keys) :
        Cardinality(commit_hashes(obs_set, keys, basename(x.probe.subdir))) # 1}}

\* the suggestions for one Probe, lines 540-547
probe_remedies(instance, subdir) ==
    (IF subdir.mods
     THEN <<[kind |-> "commit-push", subdir |-> subdir.subdir, instance |-> instance]>>
     ELSE <<>>)
    \o
    (IF subdir.remote_differs
     THEN <<[kind |-> "pull", subdir |-> subdir.subdir, instance |-> instance]>>
     ELSE <<>>)

\* lines 537-547
remedies_of(obs_set, cur_instance) ==
    LET subdirs == Get(obs_set, cur_instance).subdirs
    IN  Flatten([k \in 1..Len(subdirs) |-> probe_remedies(cur_instance, subdirs[k])])

NothingShown ==
    [raised |-> TRUE, blocks |-> <<>>, warning |-> {}, remedies |-> <<>>]

show_results(store, set_, cur_instance) ==
    IF ~Has(store, set_) THEN NothingShown                    \* line 499
    ELSE
    LET obs_set == Get(store, set_)
        keys == sorted_last(Keys(obs_set), cur_instance)
    IN  IF commit_key_error(obs_set, keys) \/ latest_key_error(obs_set, keys)
        THEN NothingShown                                     \* lines 510, 512
        ELSE
        LET blocks == [i \in 1..Len(keys) |->
                          [instance |-> keys[i],
                           rows |-> block_rows(obs_set, keys, keys[i])]]
            mixed == mixed_commits(obs_set, keys)
            warning == mixed                                  \* lines 534-535
        IN  IF cur_instance = NoName
            THEN [raised |-> FALSE, blocks |-> blocks, warning |-> warning,
                  remedies |-> <<>>]
            ELSE IF ~Has(obs_set, cur_instance)                \* line 539
            THEN [raised |-> TRUE, blocks |-> blocks, warning |-> warning,
                  remedies |-> <<>>]
            ELSE [raised |-> FALSE, blocks |-> blocks, warning |-> warning,
                  remedies |-> remedies_of(obs_set, cur_instance)]

-----------------------------------------------------------------------------
(* SpecShow: show_results on bounded stores of one set *)

MaxProbes == 2

GitProbe(path, hash, m, r) ==
    [subdir |-> path, latest |-> 1, commit |-> hash, mods |-> m, remote_differs |-> r]
PlainProbe(path) == [subdir |-> path, latest |-> 1]

\* the Probe of a directory without a file outside .git: no file statistics
without_stats(probe) == [f \in DOMAIN probe \ {"latest"} |-> probe[f]]

\* '/a/p' and 'c:\p' share the base name p, '/a/q' and '/b/q' the base name q
ProbePool ==
    << GitProbe(<<"/", "a", "/", "p">>, "abc123", FALSE, FALSE),
       GitProbe(<<"c", ":", "\\", "p">>, "def456", TRUE, TRUE),
       GitProbe(<<"/", "a", "/", "q">>, "abc123", TRUE, FALSE),
       GitProbe(<<"/", "b", "/", "q">>, "abc123", FALSE, TRUE),
       PlainProbe(<<"/", "a", "/", "d">>),
       without_stats(GitProbe(<<"/", "b", "/", "p">>, "def456", FALSE, FALSE)) >>

ObsPool ==
    {[updated |-> 0, subdirs |-> l] : l \in {x \in SubLists(ProbePool) : Len(x) <= MaxProbes}}

InstanceNames == {"alpha", "beta", "gamma"}

\* the orders in which a dict can hold some of the instance names
InstanceOrders ==
    {o \in SeqsUpTo(InstanceNames, Cardinality(InstanceNames)) :
        \A i, j \in 1..Len(o) : i # j => o[i] # o[j]}

\* A Probe without version-control fields or without file statistics
\* enters the store through do_check_one, which shows the results before
\* anything is pushed: the stores studied hold such Probes in the current
\* instance's entry only.
InitShow ==
    /\ pc = "input"
    /\ cur \in InstanceNames \cup {NoName}
    /\ \/ others = <<>>
       \/ \E o \in InstanceOrders : \E f \in [1..Len(o) -> ObsPool] :
              /\ \A i \in 1..Len(o) :
                     (\E k \in 1..Len(f[i].subdirs) :
                          {"commit", "latest"} \ DOMAIN f[i].subdirs[k] # {})
                         => o[i] = cur
              /\ others = <<[key |-> "demo",
                             val |-> [i \in 1..Len(o) |-> [key |-> o[i], val |-> f[i]]]]>>
    /\ shown = None
    /\ ExpandIdle /\ PathsIdle /\ MainIdle

ShowResults ==
    /\ pc = "input"
    /\ shown' = show_results(others, "demo", cur)
    /\ pc' = "shown"
    /\ UNCHANGED <<others, cur, ExpandVars, PathsVars, MainVars>>

NextShow == ShowResults

SpecShow == InitShow /\ [][NextShow]_vars

\* the stored Observations of set demo, and the Probes in them that have a
\* commit hash
SObs == IF Has(others, "demo") THEN Get(others, "demo") ELSE <<>>
SProbes == all_probes(SObs, Keys(SObs))
SGitProbes(dir_) ==
    {ip \in SProbes : basename(ip.probe.subdir) = dir_ /\ "commit" \in DOMAIN ip.probe}
SNames == {basename(ip.probe.subdir) : ip \in SProbes}
SRows(dir_) ==
    {r \in UNION {Range(shown.blocks[b].rows) : b \in 1..Len(shown.blocks)} :
        r.name = dir_}
SWarned(dir_) == IF dir_ \in shown.warning THEN 1 ELSE 0

\* C3: for every base name, if two instances store a Probe of that name with
\* different commit hashes then every printed row of the name is marked and
\* the name is once in the warning line; if all Probes of the name carry the
\* same hash no row of it is marked and the name is not in the warning line.
C3_MixedCommits ==
    pc = "shown" =>
        \A dir_ \in SNames :
            /\ (\E x, y \in SGitProbes(dir_) :
                    x.instance # y.instance /\ x.probe.commit # y.probe.commit)
                 => /\ \A r \in SRows(dir_) : r.mark_commit
                    /\ SWarned(dir_) = 1
            /\ (\A x, y \in SGitProbes(dir_) : x.probe.commit = y.probe.commit)
                 => /\ \A r \in SRows(dir_) : ~r.mark_commit
                    /\ SWarned(dir_) = 0

\* C4: when the current instance has an Observation in the store of the set,
\* the printed blocks are those of the other instances in store order,
\* followed by the block of the current instance.
C4_CurrentInstanceLast ==
    (pc = "shown" /\ Has(SObs, cur))
        => [b \in 1..Len(shown.blocks) |-> shown.blocks[b].instance]
               = SelectSeq(Keys(SObs), LAMBDA k : k # cur) \o <<cur>>

\* C5: the suggestions printed are exactly one for each Probe of the current
\* instance that has local modifications or remote divergence, none for its
\* other Probes and none for a Probe of another instance.
C5_OneRemedyPerProbe ==
    (pc = "shown" /\ Has(SObs, cur))
        => /\ \A k \in 1..Len(Get(SObs, cur).subdirs) :
                LET p == Get(SObs, cur).subdirs[k]
                    n == Cardinality({i \in 1..Len(shown.remedies) :
                                         shown.remedies[i].subdir = p.subdir})
                    dirty == /\ "commit" \in DOMAIN p
                             /\ (p.mods \/ p.remote_differs)
                IN  n = IF dirty THEN 1 ELSE 0
           /\ \A i \in 1..Len(shown.remedies) : shown.remedies[i].instance = cur

-----------------------------------------------------------------------------
(* check_paths.  The disk is a function from paths to what is there:        *)
(*   [kind |-> "missing"]   os.path.exists is false                         *)
(*   [kind |-> "file"]      it exists and os.path.isdir is false            *)
(*   [kind |-> "dir", files]                                                *)
(*                          a directory without .git; files tells whether   *)
(*                          the tree holds a file                           *)
(*   [kind |-> "repo", files, commit, mods, remote_differs]                 *)
(*                          a directory with .git, and what git answers     *)
(*   [kind |-> "norepo"]    a directory with .git in which git answers      *)
(*                          nothing (no commit yet, git missing or broken): *)
(*                          line 218 indexes the empty answer and raises    *)
(*   [kind |-> "badlink"]   a directory whose tree holds a dangling         *)
(*                          symbolic link: os.stat of line 182 raises       *)
(* py is the major version of the interpreter.  Under Python 3 the answers  *)
(* of git are bytes, and line 210 raises TypeError when it puts the commit  *)
(* hash into the next command: no directory with .git gives a Probe.        *)
(* The outcome is [raised, notices, states]: the 'No path' notices printed  *)
(* and the list returned, empty when the call raised.  A Probe carries the  *)
(* fields show_results reads.                                               *)

disk_at(dsk, path) == IF path \in DOMAIN dsk THEN dsk[path] ELSE [kind |-> "missing"]

\* lines 81-84: info with the keys of get_file_stats, which has none for a
\* tree without a file outside .git
file_info(path, entry) ==
    IF entry.files THEN [subdir |-> path, latest |-> 1] ELSE [subdir |-> path]

\* get_git_info raises: TypeError at line 210 under Python 3, IndexError at
\* line 218 when git answers nothing
git_info_raises(entry, py) == py = 3 \/ entry.kind = "norepo"

\* lines 85-86: info.update(get_git_info(subdir)), as far as show_results
\* reads it
get_git_info(path, entry) ==
    [commit |-> entry.commit, mods |-> entry.mods,
     remote_differs |-> entry.remote_differs] @@ file_info(path, entry)

\* the loop of lines 75-89
RECURSIVE check_each(_, _, _, _, _)
check_each(subdirs, dsk, py, notices, states) ==
    IF subdirs = <<>>
    THEN [raised |-> FALSE, notices |-> notices, states |-> states]
    ELSE LET subdir == Head(subdirs)
             entry == disk_at(dsk, subdir)
         IN  CASE entry.kind = "missing" ->
                    check_each(Tail(subdirs), dsk, py, Append(notices, subdir), states)
               [] entry.kind \in {"file", "badlink"} ->
                    [raised |-> TRUE, notices |-> notices, states |-> <<>>]
               [] entry.kind = "dir" ->
                    check_each(Tail(subdirs), dsk, py, notices,
                               Append(states, file_info(subdir, entry)))
               [] entry.kind \in {"repo", "norepo"} ->
                    IF git_info_raises(entry, py)
                    THEN [raised |-> TRUE, notices |-> notices, states |-> <<>>]
                    ELSE check_each(Tail(subdirs), dsk, py, notices,
                                    Append(states, get_git_info(subdir, entry)))

check_paths(db, dsk, py, set_, instance) ==
    LET r == expand_folders(db, set_, instance)
    IN  IF r.raised THEN [raised |-> TRUE, notices |-> <<>>, states |-> <<>>]
        ELSE check_each(r.folders, dsk, py, <<>>, <<>>)

-----------------------------------------------------------------------------
(* SpecPaths: check_paths on bounded folder lists and disks *)

PathAP == <<"/", "a", "/", "p">>
PathAQ == <<"/", "a", "/", "q">>
PathBQ == <<"/", "b", "/", "q">>

PathsEntryPool ==
    { Str(<<"/", "a", "/", "+">>), Str(<<"p">>), Str(<<"q">>), Str(PathBQ) }

\* the interpreters the script is run with
Pythons == {2, 3}

DiskEntries(path) ==
    { [kind |-> "missing"], [kind |-> "file"], [kind |-> "norepo"], [kind |-> "badlink"],
      [kind |-> "dir", files |-> TRUE], [kind |-> "dir", files |-> FALSE],
      [kind |-> "repo", files |-> TRUE,
       commit |-> "abc123", mods |-> FALSE, remote_differs |-> FALSE],
      [kind |-> "repo", files |-> TRUE,
       commit |-> "def456", mods |-> TRUE, remote_differs |-> TRUE],
      [kind |-> "repo", files |-> FALSE,
       commit |-> "abc123", mods |-> FALSE, remote_differs |-> FALSE] }

InitPaths ==
    /\ pc = "input"
    /\ xdb \in {OneInstance(f) : f \in SeqsUpTo(PathsEntryPool, MaxFolders)}
    /\ xinst \in {"alpha", "ghost"}
    /\ xres = None
    /\ \E ap \in DiskEntries(PathAP), aq \in DiskEntries(PathAQ), bq \in DiskEntries(PathBQ) :
           disk = (PathAP :> ap) @@ (PathAQ :> aq) @@ (PathBQ :> bq)
    /\ python \in Pythons
    /\ probed = None
    /\ others = None
    /\ ShowIdle /\ MainIdle

CheckPaths ==
    /\ pc = "input"
    /\ probed' = check_paths(xdb, disk, python, "demo", xinst)
    /\ xres' = expand_folders(xdb, "demo", xinst)
    /\ pc' = "probed"
    /\ UNCHANGED <<xdb, xinst, disk, python, others, ShowVars, MainVars>>

NextPaths == CheckPaths

SpecPaths == InitPaths /\ [][NextPaths]_vars

PKind(path) == disk_at(disk, path).kind
PIsDir(path) == PKind(path) \in {"dir", "repo", "norepo", "badlink"}

\* C8: the resolved paths are handled in order: a missing path gives a notice
\* and no Probe, a directory exactly one Probe, an existing non-directory
\* aborts the pass; so without an existing non-directory among them the list
\* returned is the directories of the resolved list, in order, and the
\* notices are its missing paths.
C8_PathsByDiskState ==
    (pc = "probed" /\ ~xres.raised)
        => IF \E i \in 1..Len(xres.folders) : PKind(xres.folders[i]) = "file"
           THEN probed.raised
           ELSE /\ ~probed.raised
                /\ [i \in 1..Len(probed.states) |-> probed.states[i].subdir]
                       = SelectSeq(xres.folders, PIsDir)
                /\ probed.notices = SelectSeq(xres.folders, LAMBDA f : PKind(f) = "missing")

-----------------------------------------------------------------------------
(* set_set_instance.  opt is the record [set, instance, all, list,          *)
(* show_stored, no_store, guessed_instance]; an option that was not given   *)
(* is NoName.  db is the 'set' table of the shared configuration: an        *)
(* ordered dict set -> ordered dict instance -> folder list; each set's     *)
(* dict has the one key 'instance' above its instances (lines 102, 306).    *)
(* The outcome is [raised, ret, ambiguous, resolved, opt, seen]: whether    *)
(* the call raised, what it returned, whether it left through line 329,     *)
(* whether it called expand_folders, and opt and config['seen'] after it.   *)

TEMPLATE == "_TEMPLATE_"

SetDictKeys == <<"instance">>

\* str.split('/')
RECURSIVE split_sep(_, _)
split_sep(s, piece) ==
    IF s = <<>> THEN <<piece>>
    ELSE IF Head(s) = "/" THEN <<piece>> \o split_sep(Tail(s), <<>>)
    ELSE split_sep(Tail(s), Append(piece, Head(s)))

\* os.path.join(*levels)
RECURSIVE join_all(_)
join_all(levels) ==
    IF Len(levels) = 1 THEN levels[1]
    ELSE path_join(join_all(SubSeq(levels, 1, Len(levels) - 1)), levels[Len(levels)])

\* lines 310-314 on a unix path, then the paths the loop of lines 315-322
\* compares: the working directory, then each of its parents
parent_paths(wd) ==
    LET parts == split_sep(wd, <<>>)
        levels == IF parts[1] = <<>> THEN <<<<"/">>>> \o Tail(parts) ELSE parts
    IN  [i \in 1..Len(levels) |-> join_all(SubSeq(levels, 1, Len(levels) + 1 - i))]

\* the absolute path of a list of names
RECURSIVE path_of(_)
path_of(names) ==
    IF names = <<>> THEN <<"/">>
    ELSE IF Len(names) = 1 THEN <<"/">> \o names[1]
    ELSE path_of(SubSeq(names, 1, Len(names) - 1)) \o <<"/">> \o names[Len(names)]

\* the walk of os.path.realpath over the pieces of an absolute path: an empty
\* piece and '.' are skipped, '..' drops the last name
RECURSIVE real_names(_, _)
real_names(pieces, acc) ==
    IF pieces = <<>> THEN acc
    ELSE LET piece == Head(pieces)
         IN  IF piece = <<>> \/ piece = <<".">> THEN real_names(Tail(pieces), acc)
             ELSE IF piece = <<".", ".">>
             THEN real_names(Tail(pieces),
                             IF acc = <<>> THEN acc ELSE SubSeq(acc, 1, Len(acc) - 1))
             ELSE real_names(Tail(pieces), Append(acc, piece))

\* os.path.realpath on a unix path, line 308: the path is made absolute from
\* the working directory and normalised.  No name on the model's disks is a
\* symbolic link to a directory, so no name is replaced by a link's target.
realpath(wd, path) ==
    LET abs == IF Len(path) > 0 /\ path[1] = "/" THEN path ELSE wd \o <<"/">> \o path
    IN  path_of(real_names(split_sep(abs, <<>>), <<>>))

\* the (set, instance) pairs the loops of lines 303-306 visit, in order
RECURSIVE instances_visited(_, _, _)
instances_visited(db, sets, only) ==
    IF sets = <<>> THEN <<>>
    ELSE LET set_ == Head(sets)
         IN  (IF set_ = TEMPLATE \/ (only # NoName /\ set_ # only) THEN <<>>
              ELSE [i \in 1..Len(Get(db, set_)) |-> <<set_, Keys(Get(db, set_))[i]>>])
             \o instances_visited(db, Tail(sets), only)

\* how many of the working directory's levels are among the instance's folders
levels_matching(db, wd, choice) ==
    LET folders == expand_folders(db, choice[1], choice[2]).folders
        real == {realpath(wd, folders[i]) : i \in 1..Len(folders)}
        levels == parent_paths(wd)
    IN  Cardinality({i \in 1..Len(levels) : levels[i] \in real})

RECURSIVE copies(_, _)
copies(n, x) == IF n = 0 THEN <<>> ELSE <<x>> \o copies(n - 1, x)

\* lines 323-341; visited says whether the loops of lines 303-306 reached a
\* (set, instance) pair, that is whether expand_folders was called
guess_from_choices(o, sn, choices, visited) ==
    IF Len(choices) > 1
    THEN [raised |-> FALSE, ret |-> FALSE, ambiguous |-> TRUE, resolved |-> visited,
          opt |-> o, seen |-> sn]
    ELSE IF Len(choices) = 1
    THEN [raised |-> choices[1] \in Range(sn),            \* the assert of line 334
          ret |-> TRUE, ambiguous |-> FALSE, resolved |-> visited,
          opt |-> [o EXCEPT !.set = choices[1][1], !.instance = choices[1][2],
                            !.guessed_instance = TRUE],
          seen |-> Append(sn, choices[1])]
    ELSE [raised |-> FALSE, ret |-> FALSE, ambiguous |-> FALSE, resolved |-> visited,
          opt |-> o, seen |-> sn]

\* lines 303-322 over the pairs still to visit
RECURSIVE scan_instances(_, _, _, _, _, _, _)
scan_instances(o, sn, db, wd, pairs, choices, visited) ==
    IF pairs = <<>> THEN guess_from_choices(o, sn, choices, visited)
    ELSE LET choice == Head(pairs)
         IN  IF expand_folders(db, choice[1], choice[2]).raised
             THEN [raised |-> TRUE, ret |-> FALSE, ambiguous |-> FALSE,
                   resolved |-> TRUE, opt |-> o, seen |-> sn]
             ELSE IF levels_matching(db, wd, choice) > 0 /\ choice \in Range(sn)
             THEN [raised |-> FALSE, ret |-> TRUE, ambiguous |-> FALSE,
                   resolved |-> TRUE,
                   opt |-> [o EXCEPT !.set = choice[1], !.instance = choice[2],
                                     !.guessed_instance = TRUE],
                   seen |-> sn]
             ELSE scan_instances(o, sn, db, wd, Tail(pairs),
                      choices \o copies(levels_matching(db, wd, choice), choice),
                      TRUE)

\* lines 297-302: the keys of the set's own dict, looked up in seen
seen_set_keys(o, sn) ==
    SelectSeq(SetDictKeys, LAMBDA k : <<o.set, k>> \in Range(sn))

set_set_instance(o0, sn, db, wd) ==
    LET o == [o0 EXCEPT !.guessed_instance = FALSE]
    IN  IF o.set # NoName /\ ~Has(db, o.set)
        THEN [raised |-> TRUE, ret |-> FALSE, ambiguous |-> FALSE,
              resolved |-> FALSE, opt |-> o, seen |-> sn]
        ELSE IF o.instance # NoName
        THEN [raised |-> FALSE, ret |-> TRUE, ambiguous |-> FALSE,
              resolved |-> FALSE, opt |-> o, seen |-> sn]
        ELSE IF o.set # NoName /\ seen_set_keys(o, sn) # <<>>
        THEN [raised |-> FALSE, ret |-> TRUE, ambiguous |-> FALSE,
              resolved |-> FALSE,
              opt |-> [o EXCEPT !.instance = seen_set_keys(o, sn)[1],
                                !.guessed_instance = TRUE],
              seen |-> sn]
        ELSE scan_instances(o, sn, db, wd,
                            instances_visited(db, Keys(db), o.set), <<>>, FALSE)

-----------------------------------------------------------------------------
(* do_check_one and do_show_stored as functions of the state they read.     *)
(* The store is others['obs']: an ordered dict set -> ordered dict          *)
(* instance -> Observation.  time.time() is the number of the write in the  *)
(* run; the Observations fetched carry the time 0.                          *)

\* the names of the model in the order of Python's string comparison
NameOrder ==
    <<"_TEMPLATE_", "alpha", "beta", "demo", "gamma", "ghost", "instance", "name",
      "s1", "s2", "zz">>

\* the items of a dict in the order of its sorted keys
sort_keys(od) ==
    LET ks == SelectSeq(NameOrder, LAMBDA k : Has(od, k))
    IN  [i \in 1..Len(ks) |-> [key |-> ks[i], val |-> Get(od, ks[i])]]

\* json.dump(others, ..., sort_keys=True), line 468, on others['obs']: the
\* sets and the instances of each set are written in sorted order; an
\* Observation is written with the values it has
dump_sorted(store) ==
    LET sets == sort_keys(store)
    IN  [i \in 1..Len(sets) |-> [key |-> sets[i].key, val |-> sort_keys(sets[i].val)]]

obs_of(store, set_) == IF Has(store, set_) THEN Get(store, set_) ELSE <<>>

\* store_observation that keeps the Probes of the instance's prior
\* Observation and adds the new ones to them
store_observation_merging(store, set_, instance, ob) ==
    LET before == obs_of(store, set_)
        prior == IF Has(before, instance) THEN Get(before, instance).subdirs ELSE <<>>
    IN  Put(store, set_,
            Put(before, instance, [ob EXCEPT !.subdirs = prior \o ob.subdirs]))

\* lines 120-123: others['obs'].setdefault(set, {})[instance] = {...}
store_observation(store, set_, instance, ob) ==
    Put(store, set_, Put(obs_of(store, set_), instance, ob))

\* the outcome is [crashed, others, seen, written, probed, shown, events];
\* events are the steps taken, in order: check_paths was called, the folder
\* list was resolved, the probe pass returned, the Observation was stored,
\* the report was rendered
do_check_one(o, sn, store, db, dsk, py, wr) ==
    LET info == check_paths(db, dsk, py, o.set, o.instance)
        ob == [updated |-> Len(wr) + 1, subdirs |-> info.states]
        store1 == store_observation(store, o.set, o.instance, ob)
        wr1 == Append(wr, [set |-> o.set, instance |-> o.instance, ob |-> ob])
        sh == show_results(store1, o.set, o.instance)
    IN  IF info.raised
        THEN [crashed |-> TRUE, others |-> store, seen |-> sn, written |-> wr,
              probed |-> info, shown |-> None, events |-> <<"check_paths", "resolve">>]
        ELSE IF sh.raised
        THEN [crashed |-> TRUE, others |-> store1, seen |-> sn, written |-> wr1,
              probed |-> info, shown |-> sh,
              events |-> <<"check_paths", "resolve", "probe", "store">>]
        ELSE [crashed |-> FALSE, others |-> store1,
              seen |-> IF <<o.set, o.instance>> \in Range(sn) THEN sn
                       ELSE Append(sn, <<o.set, o.instance>>),
              written |-> wr1, probed |-> info, shown |-> sh,
              events |-> <<"check_paths", "resolve", "probe", "store", "report">>]

\* lines 133-138 over the sets still to show: [crashed, shown, events]
RECURSIVE do_show_stored(_, _, _, _)
do_show_stored(o, store, sets, last) ==
    IF sets = <<>> THEN [crashed |-> FALSE, shown |-> last, events |-> <<>>]
    ELSE LET set_ == Head(sets)
         IN  IF \/ (o.set # NoName /\ ~o.guessed_instance /\ set_ # o.set)
                \/ set_ = TEMPLATE
             THEN do_show_stored(o, store, Tail(sets), last)
             ELSE LET sh == show_results(store, set_, o.instance)
                  IN  IF sh.raised
                      THEN [crashed |-> TRUE, shown |-> sh, events |-> <<>>]
                      ELSE LET rest == do_show_stored(o, store, Tail(sets), sh)
                           IN  [rest EXCEPT !.events = <<"report">> \o @]

-----------------------------------------------------------------------------
(* Spec: one run of main().  pc is the place in main: "start" before        *)
(* pull_settings, "pulled" after it, "dispatch" after set_set_instance,     *)
(* "checkall" inside the loop of do_check_all, "push" where lines 582-585   *)
(* and 590-593 decide on push_settings, "done" after a return of main,      *)
(* "exited" after exit(), "crashed" after an exception left main.  log      *)
(* holds the steps of the run in order: "fetch", "resolve", "list",         *)
(* "check_paths", "probe", "store", "report", "push" (push_settings was     *)
(* called), "push-failed", "not-stored".                                    *)

PathA == <<"/", "a">>

MarkerA == Str(<<"/", "a", "/", "+">>)
MarkerB == Str(<<"/", "b", "/", "+">>)

\* the shared configuration: s1/alpha and s1/gamma share /a/q, s2/alpha
\* holds a folder and its parent; the template's folder list is never read
MainDb ==
    << [key |-> TEMPLATE, val |-> <<[key |-> "name", val |-> <<Str(<<"p">>)>>]>>],
       [key |-> "s1", val |->
           << [key |-> "alpha", val |-> <<MarkerA, Str(<<"p">>), Str(<<"q">>)>>],
              [key |-> "beta", val |-> <<MarkerB, Lst(<< <<"q">> >>)>>],
              [key |-> "gamma", val |-> <<MarkerA, Str(<<"q">>)>>] >>],
       [key |-> "s2", val |->
           << [key |-> "alpha", val |-> <<Str(PathA), MarkerA, Str(<<"p">>)>>] >>] >>

Repo(hash, m, r) ==
    [kind |-> "repo", files |-> TRUE, commit |-> hash, mods |-> m, remote_differs |-> r]
Dir == [kind |-> "dir", files |-> TRUE]

PathB == <<"/", "b">>
PathC == <<"/", "c">>
Missing == [kind |-> "missing"]

\* the kinds of disk entry that are directories
DirKinds == {"dir", "repo", "norepo", "badlink"}

\* path a is a proper ancestor of path b
Above(a, b) ==
    /\ Len(a) < Len(b)
    /\ SubSeq(b, 1, Len(a)) = a
    /\ b[Len(a) + 1] = "/"

\* a disk is a tree: what exists lies in a directory; os.walk of a directory
\* (lines 177-182) reaches the files and dangling links of the trees below it
WellFormedDisk(d) ==
    \A a \in DOMAIN d, b \in DOMAIN d :
        (Above(a, b) /\ d[b].kind # "missing")
            => /\ d[a].kind \in DirKinds
               /\ d[b].kind = "badlink" => d[a].kind = "badlink"
               /\ (d[b].kind = "file" \/ (d[b].kind \in {"dir", "repo"} /\ d[b].files))
                      => (d[a].kind \in {"dir", "repo"} => d[a].files)

MainDisks ==
    { (PathA :> Missing) @@ (PathAP :> Missing) @@ (PathAQ :> Missing)
        @@ (PathB :> Missing) @@ (PathBQ :> Missing) @@ (PathC :> Dir),
      (PathA :> Dir) @@ (PathAP :> Missing) @@ (PathAQ :> Dir)
        @@ (PathB :> Missing) @@ (PathBQ :> Missing) @@ (PathC :> Dir),
      (PathA :> Repo("abc123", FALSE, FALSE)) @@ (PathAP :> Repo("def456", TRUE, TRUE))
        @@ (PathAQ :> Dir)
        @@ (PathB :> Dir) @@ (PathBQ :> Repo("abc123", FALSE, FALSE)) @@ (PathC :> Dir),
      (PathA :> [kind |-> "badlink"])
        @@ (PathAP :> [Repo("abc123", FALSE, FALSE) EXCEPT !.files = FALSE])
        @@ (PathAQ :> [kind |-> "badlink"])
        @@ (PathB :> Dir) @@ (PathBQ :> [kind |-> "file"]) @@ (PathC :> Dir),
      (PathA :> Dir) @@ (PathAP :> [kind |-> "dir", files |-> FALSE])
        @@ (PathAQ :> [kind |-> "file"])
        @@ (PathB :> Dir) @@ (PathBQ :> [kind |-> "norepo"]) @@ (PathC :> Dir) }

\* where the script is run from
MainCwds == { PathAP, PathAQ, PathA, PathC }

OldObs(path, hash) == [updated |-> 0, subdirs |-> <<GitProbe(path, hash, FALSE, FALSE)>>]

\* what the shared repository holds when the run starts
FetchedStores ==
    { <<>>,
      << [key |-> "s1", val |-> << [key |-> "beta", val |-> OldObs(PathBQ, "abc123")] >>] >>,
      << [key |-> "s1", val |-> << [key |-> "alpha", val |-> OldObs(PathAP, "old111")],
                                    [key |-> "beta", val |-> OldObs(PathBQ, "abc123")] >>],
         [key |-> "s2", val |-> << [key |-> "alpha", val |-> OldObs(PathAP, "abc123")] >>] >> }

SeenLists ==
    { <<>>, << <<"s1", "gamma">> >>, << <<"s2", "alpha">> >>, << <<"s1", "alpha">>, <<"s1", "beta">> >> }

\* the command line: an instance can only be given after a set
Options ==
    {o \in [set : {NoName, "s1", "s2", "zz"},
            instance : {NoName, "alpha", "beta"},
            all : {NoName, "beta"},
            list : BOOLEAN, show_stored : BOOLEAN, no_store : BOOLEAN,
            guessed_instance : {FALSE}] :
        o.instance # NoName => o.set # NoName}

\* The run is one of Python 3.7 or later: json.load (line 449) gives dicts
\* that iterate in the order of the file, which is the order of MainDb and of
\* the fetched store.  The working directory is a directory of the disk.
Init ==
    /\ pc = "start"
    /\ xdb = MainDb
    /\ disk \in {d \in MainDisks : WellFormedDisk(d)}
    /\ python = 3
    /\ cwd \in {wd \in MainCwds : disk_at(disk, wd).kind \in DirKinds}
    /\ opt \in Options
    /\ seen \in SeenLists
    /\ fetched \in FetchedStores
    /\ others = <<>>
    /\ written = <<>> /\ pushed = <<>> /\ todo = <<>> /\ log = <<>>
    /\ ssi = [called |-> FALSE, raised |-> FALSE, ret |-> FALSE, ambiguous |-> FALSE,
              given |-> opt, seen_before |-> seen,
              chosen |-> <<opt.set, opt.instance>>, seen_after |-> seen]
    /\ probed = None /\ shown = None
    /\ cur = NoName /\ xinst = None /\ xres = None

Fixed == <<xdb, disk, python, cwd, fetched, cur, xinst, xres>>

\* pull_settings, lines 423-457
PullSettings ==
    /\ pc = "start"
    /\ others' = fetched
    /\ log' = Append(log, "fetch")
    /\ pc' = "pulled"
    /\ UNCHANGED <<Fixed, opt, seen, ssi, written, pushed, todo, probed, shown>>

\* pull_settings when git clone fails, lines 433-436
PullFails ==
    /\ pc = "start"
    /\ log' = Append(log, "fetch-failed")
    /\ pc' = "exited"
    /\ UNCHANGED <<Fixed, others, opt, seen, ssi, written, pushed, todo, probed, shown>>

\* main, line 567
GuessInstance ==
    /\ pc = "pulled"
    /\ \E r \in {set_set_instance(opt, seen, xdb, cwd)} :
           /\ ssi' = [called |-> TRUE, raised |-> r.raised, ret |-> r.ret,
                      ambiguous |-> r.ambiguous, given |-> opt, seen_before |-> seen,
                      chosen |-> <<r.opt.set, r.opt.instance>>, seen_after |-> r.seen]
           /\ opt' = r.opt
           /\ seen' = r.seen
           /\ log' = IF r.resolved THEN Append(log, "resolve") ELSE log
           /\ pc' = IF r.raised THEN "crashed" ELSE "dispatch"
    /\ UNCHANGED <<Fixed, others, written, pushed, todo, probed, shown>>

\* the test of line 573 made on the set instead of the instance
no_set_exit(o) == o.set = NoName /\ o.all = NoName

\* main, line 573
no_instance_exit(o) == o.instance = NoName /\ o.all = NoName

\* main, lines 569-571
DoList ==
    /\ pc = "dispatch"
    /\ opt.list
    /\ log' = Append(log, "list")
    /\ pc' = "done"
    /\ UNCHANGED <<Fixed, others, opt, seen, ssi, written, pushed, todo, probed, shown>>

\* main, lines 573-574
ExitNoInstance ==
    /\ pc = "dispatch"
    /\ ~opt.list
    /\ no_instance_exit(opt)
    /\ pc' = "exited"
    /\ UNCHANGED <<Fixed, others, opt, seen, ssi, written, pushed, todo, probed, shown, log>>

\* main, lines 576-578
DoShowStored ==
    /\ pc = "dispatch"
    /\ ~opt.list /\ ~no_instance_exit(opt)
    /\ opt.show_stored
    /\ \E r \in {do_show_stored(opt, others, Keys(xdb), None)} :
           /\ shown' = r.shown
           /\ log' = log \o r.events
           /\ pc' = IF r.crashed THEN "crashed" ELSE "done"
    /\ UNCHANGED <<Fixed, others, opt, seen, ssi, written, pushed, todo, probed>>

\* main, lines 580-581, and do_check_all, line 110
StartCheckAll ==
    /\ pc = "dispatch"
    /\ ~opt.list /\ ~no_instance_exit(opt) /\ ~opt.show_stored
    /\ opt.all # NoName
    /\ todo' = Keys(xdb)
    /\ pc' = "checkall"
    /\ UNCHANGED <<Fixed, others, opt, seen, ssi, written, pushed, probed, shown, log>>

\* do_check_all, lines 111-112
SkipTemplate ==
    /\ pc = "checkall"
    /\ todo # <<>> /\ Head(todo) = TEMPLATE
    /\ todo' = Tail(todo)
    /\ UNCHANGED <<Fixed, pc, others, opt, seen, ssi, written, pushed, probed, shown, log>>

\* do_check_all, lines 113-116: one turn of the loop
CheckAllStep ==
    /\ pc = "checkall"
    /\ todo # <<>> /\ Head(todo) # TEMPLATE
    /\ \E g \in {set_set_instance([opt EXCEPT !.set = Head(todo)], seen, xdb, cwd)} :
       \E o \in {[g.opt EXCEPT !.instance = IF @ # NoName THEN @ ELSE opt.all]} :
       \E r \in {IF g.raised THEN None
                 ELSE do_check_one(o, g.seen, others, xdb, disk, python, written)} :
       LET guessing == IF g.resolved THEN <<"resolve">> ELSE <<>>
       IN  IF g.raised
           THEN /\ pc' = "crashed"
                /\ opt' = g.opt
                /\ log' = log \o guessing
                /\ UNCHANGED <<others, seen, written, probed, shown>>
           ELSE /\ pc' = IF r.crashed THEN "crashed" ELSE "checkall"
                /\ opt' = o
                /\ others' = r.others
                /\ seen' = r.seen
                /\ written' = r.written
                /\ probed' = r.probed
                /\ shown' = r.shown
                /\ log' = log \o guessing \o r.events
    /\ todo' = Tail(todo)
    /\ UNCHANGED <<Fixed, ssi, pushed>>

\* the loop of do_check_all has ended, line 582
CheckAllDone ==
    /\ pc = "checkall"
    /\ todo = <<>>
    /\ pc' = "push"
    /\ UNCHANGED <<Fixed, others, opt, seen, ssi, written, pushed, todo, probed, shown, log>>

\* main, line 588
DoCheckOne ==
    /\ pc = "dispatch"
    /\ ~opt.list /\ ~no_instance_exit(opt) /\ ~opt.show_stored
    /\ opt.all = NoName
    /\ \E r \in {do_check_one(opt, seen, others, xdb, disk, python, written)} :
           /\ pc' = IF r.crashed THEN "crashed" ELSE "push"
           /\ others' = r.others
           /\ seen' = r.seen
           /\ written' = r.written
           /\ probed' = r.probed
           /\ shown' = r.shown
           /\ log' = log \o r.events
    /\ UNCHANGED <<Fixed, opt, ssi, pushed, todo>>

\* main, lines 582-583 and 590-591
NotStoring ==
    /\ pc = "push"
    /\ opt.no_store
    /\ log' = Append(log, "not-stored")
    /\ pc' = "done"
    /\ UNCHANGED <<Fixed, others, opt, seen, ssi, written, pushed, todo, probed, shown>>

\* push_settings, lines 459-478
PushSettings ==
    /\ pc = "push"
    /\ ~opt.no_store
    /\ pushed' = dump_sorted(others)
    /\ log' = Append(log, "push")
    /\ pc' = "done"
    /\ UNCHANGED <<Fixed, others, opt, seen, ssi, written, todo, probed, shown>>

\* push_settings when a git command fails, lines 479-483
PushFails ==
    /\ pc = "push"
    /\ ~opt.no_store
    /\ log' = log \o <<"push", "push-failed">>
    /\ pc' = "exited"
    /\ UNCHANGED <<Fixed, others, opt, seen, ssi, written, pushed, todo, probed, shown>>

Next ==
    \/ PullSettings \/ PullFails \/ GuessInstance
    \/ DoList \/ ExitNoInstance \/ DoShowStored
    \/ StartCheckAll \/ SkipTemplate \/ CheckAllStep \/ CheckAllDone
    \/ DoCheckOne \/ NotStoring \/ PushSettings \/ PushFails

Spec == Init /\ [][Next]_vars

-----------------------------------------------------------------------------
(* Properties of a run *)

Logged(e) == \E i \in 1..Len(log) : log[i] = e

Ended == pc \in {"done", "exited", "crashed"}

\* the (set, instance) keys of a store and the entry at a key
StoreKeys(store) ==
    UNION {{<<store[i].key, store[i].val[j].key>> : j \in 1..Len(store[i].val)} :
              i \in 1..Len(store)}
NoEntry == [updated |-> -1, subdirs |-> <<>>]
EntryAt(store, k) == IF k \in StoreKeys(store) THEN Get(Get(store, k[1]), k[2]) ELSE NoEntry
Changed(before, after) ==
    {k \in StoreKeys(before) \cup StoreKeys(after) : EntryAt(before, k) # EntryAt(after, k)}

\* the Observations this run wrote for key k, in order
WrittenAt(k) == SelectSeq(written, LAMBDA w : <<w.set, w.instance>> = k)

\* push_settings was called and returned
Pushed == pc = "done" /\ Logged("push")

\* the keys of a dict come in the order of Python's string comparison
name_rank(k) == CHOOSE i \in 1..Len(NameOrder) : NameOrder[i] = k
KeysSorted(od) ==
    \A i, j \in 1..Len(od) : i < j => name_rank(od[i].key) < name_rank(od[j].key)

\* the (set, instance) keys the run wrote, and the sets it wrote, in order
WrittenKeys == {<<written[i].set, written[i].instance>> : i \in 1..Len(written)}
WrittenSets == [i \in 1..Len(written) |-> written[i].set]

\* the configured sets do_check_all checks, in order
checked_sets == SelectSeq(Keys(xdb), LAMBDA k : k # TEMPLATE)

\* C6 as stated: the store a run pushes differs from the store it fetched
\* in exactly one (set, instance) entry.
C6_ExactlyOneEntry ==
    Pushed => Cardinality(Changed(fetched, pushed)) = 1

\* C6 amended: every entry of the in-memory store is the Observation the
\* run wrote for it (whole, not merged with the prior one) or else the entry
\* fetched; the run writes at most one entry per set, a run without --all at
\* most one entry.  The store pushed holds the entries of the in-memory
\* store, its sets and instances in sorted order, and differs from the
\* fetched store in exactly the entries written: one entry in a run
\* without --all, one entry per configured set other than _TEMPLATE_, in
\* the order of the configuration, in a run with --all.
C6_OneEntryPerCheck ==
    Logged("fetch") =>
        /\ \A k \in StoreKeys(others) \cup StoreKeys(fetched) :
               EntryAt(others, k) = IF WrittenAt(k) # <<>> THEN WrittenAt(k)[1].ob
                                    ELSE EntryAt(fetched, k)
        /\ \A i, j \in 1..Len(written) : i # j => written[i].set # written[j].set
        /\ opt.all = NoName => Len(written) <= 1
        /\ Pushed =>
               /\ StoreKeys(pushed) = StoreKeys(others)
               /\ \A k \in StoreKeys(others) : EntryAt(pushed, k) = EntryAt(others, k)
               /\ KeysSorted(pushed)
               /\ \A i \in 1..Len(pushed) : KeysSorted(pushed[i].val)
               /\ Changed(fetched, pushed) = WrittenKeys
               /\ opt.all = NoName => Len(written) = 1
               /\ opt.all # NoName => WrittenSets = checked_sets

\* C6 witness: a run without --all has pushed a store in which the entry of
\* its instance, present when fetched, is replaced and another is untouched.
C6_Witness ==
    /\ Pushed /\ opt.all = NoName
    /\ Len(written) = 1
    /\ <<written[1].set, written[1].instance>> \in StoreKeys(fetched)
    /\ Len(EntryAt(fetched, <<written[1].set, written[1].instance>>).subdirs) > 0
    /\ Cardinality(StoreKeys(fetched)) > 1

\* C7: the store is fetched before any path is resolved or probed; once the
\* run has ended, push_settings was called if and only if a probe pass was
\* performed and --no-store is not set; a push comes after the Observation
\* was stored and the report rendered; a run that lists, shows stored
\* results, has --no-store or exits for want of an instance does not push.
C7_PushIffProbed ==
    /\ \A i \in 1..Len(log) :
           log[i] \in {"resolve", "check_paths", "probe"}
               => \E j \in 1..(i - 1) : log[j] = "fetch"
    /\ Ended => (Logged("push") <=> (Logged("probe") /\ ~opt.no_store))
    /\ \A i \in 1..Len(log) :
           log[i] = "push"
               => /\ \E j \in 1..(i - 1) : log[j] = "store"
                  /\ \E j \in 1..(i - 1) : log[j] = "report"
                  /\ \A j \in 1..Len(log) : log[j] \in {"store", "report"} => j < i
    /\ (Logged("list") \/ opt.no_store \/ (pc = "exited" /\ ~Logged("check_paths")))
           => ~Logged("push")
    /\ (opt.show_stored /\ ~no_instance_exit(opt) /\ ~opt.list) => ~Logged("push")

\* the run is one of do_check_all: --all is given and main returns neither
\* after do_list (line 571) nor after do_show_stored (line 578)
CheckAllRun == opt.all # NoName /\ ~opt.list /\ ~opt.show_stored

MatchingPairs ==
    {c \in Range(instances_visited(xdb, Keys(xdb), ssi.given.set)) :
        levels_matching(xdb, cwd, c) > 0}

\* C10: when no instance is given, main's set_set_instance call ends as
\* ambiguous exactly when more than one distinct pair matches and none of
\* them is in the seen list; when exactly one distinct pair matches and it
\* is not in the seen list it is selected, appended to the seen list, and
\* the call returns True.
C10_AmbiguousIffSeveralPairs ==
    (ssi.called /\ ~ssi.raised /\ ssi.given.instance = NoName)
        => /\ ssi.ambiguous <=>
                  /\ Cardinality(MatchingPairs) > 1
                  /\ MatchingPairs \cap Range(ssi.seen_before) = {}
           /\ \A c \in MatchingPairs :
                  (MatchingPairs = {c} /\ c \notin Range(ssi.seen_before))
                      => /\ ssi.ret
                         /\ ssi.chosen = c
                         /\ ssi.seen_after = Append(ssi.seen_before, c)

\* the instance --all is to check for set_: the one set_set_instance
\* detects for that set alone with the seen list sn, else the INSTANCE
\* given with --all
instance_for(set_, sn) ==
    LET fresh == set_set_instance([opt EXCEPT !.set = set_, !.instance = NoName],
                                  sn, xdb, cwd)
    IN  IF fresh.ret THEN fresh.opt.instance ELSE opt.all

\* C11: in a --all run without an instance on the command line, every turn
\* of do_check_all's loop checks, for its set, the instance detected for
\* that set alone, or else the INSTANCE given with --all, whatever was
\* chosen for the sets before it; and when the loop has ended (the run
\* neither lists nor shows stored results) exactly one check has been
\* stored for every set except _TEMPLATE_, in order.
C11_InstancePerSet ==
    /\ [][(/\ pc = "checkall" /\ todo # <<>> /\ Head(todo) # TEMPLATE
           /\ ssi.given.instance = NoName)
              => /\ opt'.set = Head(todo)
                 /\ opt'.instance = instance_for(Head(todo), seen)]_vars
    /\ []((pc \in {"push", "done"} /\ opt.all # NoName /\ ~opt.list /\ ~opt.show_stored)
              => /\ Len(written) = Len(checked_sets)
                 /\ \A i \in 1..Len(written) : written[i].set = checked_sets[i])

====
